---- MODULE Spec2Model ----
(***************************************************************************)
(* Model of src/app.py (Stock Strategy Analyzer): the rolling indicators,  *)
(* the Buy/Sell/Hold signal rules, the investment-growth simulation and    *)
(* the "Analyze Stock" handler of main().                                  *)
(*                                                                         *)
(* Numbers.  The program computes in IEEE doubles (pandas / numpy).  The   *)
(* model computes in exact extended rationals [n, d]: d > 0 is the         *)
(* fraction n/d in lowest terms, 1/0 and -1/0 are +inf and -inf, 0/0 is    *)
(* NaN.  numpy's division by zero yields inf or NaN with a warning and     *)
(* never raises, which the same representation gives.  Rounding of         *)
(* doubles is not modelled.  The sample standard deviation is kept as the  *)
(* exact surd a + k*sqrt(v), and compared by squaring.                     *)
(*                                                                         *)
(* The DataFrame is a function from column names to columns; a column is   *)
(* a sequence with one entry per bar.  Bar i carries the i-th timestamp    *)
(* of the (strictly increasing) index, so dates are bar numbers.  Only the *)
(* Close column of the price data is modelled: Open, High and Low are read *)
(* by the chart alone.                                                     *)
(***************************************************************************)
EXTENDS Integers, Sequences, FiniteSets, TLC

VARIABLES source, data, pre, last, run, prevRun

vars == <<source, data, pre, last, run, prevRun>>

(***************************************************************************)
(* Bounds of the model and constants of the program.                       *)
(***************************************************************************)
MaxLen == 3        \* longest explicitly enumerated series
MaxOver == 5       \* bars beyond a rolling window in the generated series

Window == 20       \* calculate_bollinger_bands(window=20)
NoOfStd == 2       \* calculate_bollinger_bands(no_of_std=2)
ShortWindow == 50  \* calculate_sma(short_window=50)
LongWindow == 200  \* calculate_sma(long_window=200)
MinCapital == 1000      \* st.number_input(min_value=1000)
DefaultCapital == 10000 \* st.number_input(value=10000)

(***************************************************************************)
(* Extended rationals.                                                     *)
(***************************************************************************)
Abs(x) == IF x < 0 THEN -x ELSE x

Sign(x) == IF x < 0 THEN -1 ELSE IF x > 0 THEN 1 ELSE 0

RECURSIVE GCD(_, _)
GCD(a, b) == IF b = 0 THEN a ELSE GCD(b, a % b)

Rat(n, d) ==
  IF d = 0 THEN [n |-> Sign(n), d |-> 0]
  ELSE LET g == GCD(Abs(n), Abs(d))
       IN  [n |-> Sign(d) * (n \div g), d |-> Abs(d) \div g]

NaN == [n |-> 0, d |-> 0]
Zero == [n |-> 0, d |-> 1]
R(i) == [n |-> i, d |-> 1]

IsNaN(a) == a.d = 0 /\ a.n = 0
IsFinite(a) == a.d > 0

Times(a, b) == Rat(a.n * b.n, a.d * b.d)
Div(a, b) == Rat(a.n * b.d, a.d * b.n)
Plus(a, b) ==
  IF a.d = 0 /\ b.d = 0 THEN (IF a.n = b.n THEN a ELSE NaN)
  ELSE Rat(a.n * b.d + b.n * a.d, a.d * b.d)
Neg(a) == [n |-> -a.n, d |-> a.d]
Minus(a, b) == Plus(a, Neg(b))

\* IEEE order: every comparison with NaN is false.
Lt(a, b) ==
  IF IsNaN(a) \/ IsNaN(b) THEN FALSE
  ELSE IF a.d = 0 \/ b.d = 0
       THEN (IF a.d = 0 THEN a.n ELSE 0) < (IF b.d = 0 THEN b.n ELSE 0)
       ELSE a.n * b.d < b.n * a.d
Gt(a, b) == Lt(b, a)
Ge(a, b) == ~IsNaN(a) /\ ~IsNaN(b) /\ ~Lt(a, b)
Le(a, b) == Ge(b, a)

\* a + k*sqrt(v), v >= 0.
Surd(a, k, v) ==
  IF IsNaN(a) \/ IsNaN(v) THEN [a |-> NaN, k |-> 0, v |-> Zero]
  ELSE IF v = Zero \/ k = 0 THEN [a |-> a, k |-> 0, v |-> Zero]
  ELSE [a |-> a, k |-> k, v |-> v]

\* a + k*s for a rational a and a surd s with no rational part.
PlusScaled(a, k, s) ==
  IF IsNaN(s.a) THEN Surd(NaN, 0, Zero) ELSE Surd(a, k * s.k, s.v)

\* c < a + k*sqrt(v)
LtSurd(c, s) ==
  LET dd == Minus(c, s.a)
      d2 == Times(dd, dd)
      kv == Times(R(s.k * s.k), s.v)
  IN  IF IsNaN(dd) THEN FALSE
      ELSE IF s.k = 0 THEN Lt(dd, Zero)
      ELSE IF s.k > 0 THEN Le(dd, Zero) \/ Lt(d2, kv)
      ELSE Lt(dd, Zero) /\ Gt(d2, kv)

\* c > a + k*sqrt(v)
GtSurd(c, s) ==
  LET dd == Minus(c, s.a)
      d2 == Times(dd, dd)
      kv == Times(R(s.k * s.k), s.v)
  IN  IF IsNaN(dd) THEN FALSE
      ELSE IF s.k = 0 THEN Gt(dd, Zero)
      ELSE IF s.k > 0 THEN Gt(dd, Zero) /\ Gt(d2, kv)
      ELSE Ge(dd, Zero) \/ Lt(d2, kv)

(***************************************************************************)
(* The DataFrame.                                                          *)
(***************************************************************************)
Frame(closes) == "Close" :> closes

NBars(d) == Len(d["Close"])

\* data[name] = col: the column is added, or replaces the one of that name.
SetCol(d, name, col) == (name :> SubSeq(col, 1, Len(col))) @@ d

None == [none |-> TRUE]

(***************************************************************************)
(* Rolling statistics: a trailing window of `window` bars ending at the    *)
(* current bar; NaN until the window is full (min_periods = window).       *)
(***************************************************************************)
\* Sums over s[lo..hi], split in halves to keep the recursion shallow.
RECURSIVE SumFrom(_, _, _)
SumFrom(s, lo, hi) ==
  IF lo > hi THEN 0
  ELSE IF lo = hi THEN s[lo]
  ELSE LET mid == (lo + hi) \div 2
       IN  SumFrom(s, lo, mid) + SumFrom(s, mid + 1, hi)

\* Running totals <<f(s[lo]), f(s[lo]) + f(s[lo+1]), ...>> + base, where f is the
\* value (pow = 1) or its square (pow = 2); split in halves like SumFrom.
RECURSIVE Totals(_, _, _, _, _)
Totals(s, pow, lo, hi, base) ==
  IF lo > hi THEN <<>>
  ELSE IF lo = hi THEN <<base + (IF pow = 1 THEN s[lo] ELSE s[lo] * s[lo])>>
  ELSE LET mid == (lo + hi) \div 2
           left == Totals(s, pow, lo, mid, base)
       IN  left \o Totals(s, pow, mid + 1, hi, left[Len(left)])

\* The sum over the window ending at bar i, from the running totals P.
WindowSum(P, i, window) == P[i] - (IF i = window THEN 0 ELSE P[i - window])

\* Faulty variant: min_periods = 1, a mean over the bars seen so far.
RollingMeanPartial(s, window) ==
  LET P == Totals(s, 1, 1, Len(s), 0)
  IN  [i \in 1..Len(s) |->
         IF i < window THEN Rat(P[i], i) ELSE Rat(WindowSum(P, i, window), window)]

RollingMean(s, window) ==
  LET P == Totals(s, 1, 1, Len(s), 0)
  IN  [i \in 1..Len(s) |->
         IF i < window THEN NaN ELSE Rat(WindowSum(P, i, window), window)]

\* Sample variance (ddof = 1) of the window: (n*Q - S^2) / (n*(n-1)).
RollingVar(s, window) ==
  LET P1 == Totals(s, 1, 1, Len(s), 0)
      P2 == Totals(s, 2, 1, Len(s), 0)
  IN  [i \in 1..Len(s) |->
         IF i < window THEN NaN
         ELSE LET S == WindowSum(P1, i, window)
                  Q == WindowSum(P2, i, window)
              IN  Rat(window * Q - S * S, window * (window - 1))]

calculate_bollinger_bands(d, window, no_of_std) ==
  LET sma == RollingMean(d["Close"], window)
      var == RollingVar(d["Close"], window)
      n   == NBars(d)
      d1  == SetCol(d, "SMA", sma)
      d2  == SetCol(d1, "STD", [i \in 1..n |-> Surd(Zero, 1, var[i])])
      d3  == SetCol(d2, "Upper Band",
                    [i \in 1..n |-> PlusScaled(d2["SMA"][i], no_of_std, d2["STD"][i])])
      d4  == SetCol(d3, "Lower Band",
                    [i \in 1..n |-> PlusScaled(d3["SMA"][i], -no_of_std, d3["STD"][i])])
  IN  d4

calculate_sma(d, short_window, long_window) ==
  LET d1 == SetCol(d, "SMA_Short", RollingMean(d["Close"], short_window))
      d2 == SetCol(d1, "SMA_Long", RollingMean(d1["Close"], long_window))
  IN  d2

(***************************************************************************)
(* Signals: data['Signal'] = 0, then data.loc[mask, 'Signal'] = value.     *)
(***************************************************************************)
Fill(d, name, val) == SetCol(d, name, [i \in 1..NBars(d) |-> val])

AssignWhere(d, mask, name, val) ==
  SetCol(d, name, [i \in 1..NBars(d) |-> IF mask[i] THEN val ELSE d[name][i]])

\* Faulty variant: close <= lower.
BollingerBuyMaskNonStrict(d) ==
  [i \in 1..NBars(d) |->
     ~IsNaN(d["Lower Band"][i].a) /\ ~GtSurd(R(d["Close"][i]), d["Lower Band"][i])]

BollingerBuyMask(d) ==
  [i \in 1..NBars(d) |-> LtSurd(R(d["Close"][i]), d["Lower Band"][i])]

BollingerSellMask(d) ==
  [i \in 1..NBars(d) |-> GtSurd(R(d["Close"][i]), d["Upper Band"][i])]

\* Faulty variant: Buy only on the bar where the short average crosses above.
SmaBuyMaskCrossing(d) ==
  [i \in 1..NBars(d) |->
     /\ Gt(d["SMA_Short"][i], d["SMA_Long"][i])
     /\ i > 1 => ~Gt(d["SMA_Short"][i - 1], d["SMA_Long"][i - 1])]

SmaBuyMask(d) ==
  [i \in 1..NBars(d) |-> Gt(d["SMA_Short"][i], d["SMA_Long"][i])]

SmaSellMask(d) ==
  [i \in 1..NBars(d) |-> Lt(d["SMA_Short"][i], d["SMA_Long"][i])]

\* Faulty variant: the Signal column is not reset when it already exists.
apply_strategy_keeping_signal(d, strategy) ==
  IF strategy = "Bollinger Bands"
  THEN LET d1 == calculate_bollinger_bands(d, Window, NoOfStd)
           d2 == IF "Signal" \in DOMAIN d1 THEN d1 ELSE Fill(d1, "Signal", 0)
           d3 == AssignWhere(d2, BollingerBuyMask(d2), "Signal", 1)
           d4 == AssignWhere(d3, BollingerSellMask(d3), "Signal", -1)
       IN  d4
  ELSE IF strategy = "SMA Crossover"
  THEN LET d1 == calculate_sma(d, ShortWindow, LongWindow)
           d2 == IF "Signal" \in DOMAIN d1 THEN d1 ELSE Fill(d1, "Signal", 0)
           d3 == AssignWhere(d2, SmaBuyMask(d2), "Signal", 1)
           d4 == AssignWhere(d3, SmaSellMask(d3), "Signal", -1)
       IN  d4
  ELSE d

apply_strategy(d, strategy) ==
  IF strategy = "Bollinger Bands"
  THEN LET d1 == calculate_bollinger_bands(d, Window, NoOfStd)
           d2 == Fill(d1, "Signal", 0)
           d3 == AssignWhere(d2, BollingerBuyMask(d2), "Signal", 1)
           d4 == AssignWhere(d3, BollingerSellMask(d3), "Signal", -1)
       IN  d4
  ELSE IF strategy = "SMA Crossover"
  THEN LET d1 == calculate_sma(d, ShortWindow, LongWindow)
           d2 == Fill(d1, "Signal", 0)
           d3 == AssignWhere(d2, SmaBuyMask(d2), "Signal", 1)
           d4 == AssignWhere(d3, SmaSellMask(d3), "Signal", -1)
       IN  d4
  ELSE d

(***************************************************************************)
(* Investment growth.                                                      *)
(***************************************************************************)
Styles == <<"Aggressive", "Moderate", "Passive">>

\* Faulty variant: the Aggressive and Passive factors exchanged.
style_multipliers_swapped ==
  [s \in {"Aggressive", "Moderate", "Passive"} |->
     IF s = "Aggressive" THEN Rat(3, 4)
     ELSE IF s = "Moderate" THEN R(1) ELSE Rat(3, 2)]

style_multipliers ==
  [s \in {"Aggressive", "Moderate", "Passive"} |->
     IF s = "Aggressive" THEN Rat(3, 2)
     ELSE IF s = "Moderate" THEN R(1) ELSE Rat(3, 4)]

\* Faulty variant: an unrecognized style falls back to 0.
MultiplierZeroFallback(style) ==
  IF style \in DOMAIN style_multipliers THEN style_multipliers[style] ELSE Zero

Multiplier(style) ==
  IF style \in DOMAIN style_multipliers THEN style_multipliers[style] ELSE R(1)

GrowthCol(style) == style \o " Growth"

start_price(d) == R(d["Close"][1])

\* Faulty variant: the end price read from the first bar.
end_price_first(d) == R(d["Close"][1])

end_price(d) == R(d["Close"][NBars(d)])

\* The outcome of one call: what it returns or raises, and the frame after it.
calculate_investment_growth(d, amount, style) ==
  IF NBars(d) = 0
  THEN [kind |-> "raise", exc |-> "IndexError", data |-> d]
  ELSE LET multiplier == Multiplier(style)
           growth == Times(Times(Div(end_price(d), start_price(d)), R(amount)),
                           multiplier)
           roi == Times(Div(Minus(growth, R(amount)), R(amount)), R(100))
           traj == [i \in 1..NBars(d) |->
                      Times(Times(Div(R(d["Close"][i]), start_price(d)), R(amount)),
                            multiplier)]
       IN  [kind |-> "return", growth |-> growth, roi |-> roi,
            data |-> SetCol(d, GrowthCol(style), traj)]

(***************************************************************************)
(* The series a session can load (an uploaded CSV or a ticker history).    *)
(* ShortSeries: every series of up to MaxLen bars; a close of 0 is a       *)
(* degenerate price a CSV can hold.  MidSeries: constant runs around the   *)
(* Bollinger window.  LongSeries: piecewise constant series long enough    *)
(* for the 200-bar average.                                                *)
(***************************************************************************)
ShortPrices == {0, 100, 110, 121}
MainPrices == {100, 121}
MidPrices == {50, 100}
LongPrices == {100, 110}

Run(v, n) == [i \in 1..n |-> v]

ShortSeries == UNION {[1..n -> ShortPrices] : n \in 0..MaxLen}

MidSeries == {Run(v, n) : v \in MidPrices, n \in (Window - 1)..(Window + MaxOver)}

LongSeries ==
  {Run(a, LongWindow - ShortWindow) \o Run(b, ShortWindow) \o Run(c, t) :
     a \in LongPrices, b \in LongPrices, c \in LongPrices,
     t \in {0, MaxOver, ShortWindow + MaxOver}}

\* Valid (positive) prices for the sessions that press "Analyze Stock".
MainSeries == UNION {[1..n -> MainPrices] : n \in 0..MaxLen}

Series == ShortSeries \cup MidSeries \cup LongSeries

Strategies == {"Bollinger Bands", "SMA Crossover"}

StyleNames == {"Aggressive", "Moderate", "Passive", "Balanced"}

Amounts == {MinCapital, DefaultCapital}

DisplayDates == {1, 2, 3}

NoCall == [fn |-> "none"]
NoRun == [kind |-> "none"]

InitWith(S) ==
  /\ source \in S
  /\ data = Frame(source)
  /\ pre = Frame(source)
  /\ last = NoCall
  /\ run = NoRun
  /\ prevRun = NoRun

Init == InitWith(Series)

InitShort == InitWith(ShortSeries)

InitMain == InitWith(MainSeries)

(***************************************************************************)
(* Direct calls of the helper functions on the session's DataFrame.        *)
(***************************************************************************)
CallBollingerBands ==
  /\ pre' = data
  /\ data' = calculate_bollinger_bands(data, Window, NoOfStd)
  /\ last' = [fn |-> "calculate_bollinger_bands"]
  /\ UNCHANGED <<source, run, prevRun>>

CallSma ==
  /\ pre' = data
  /\ data' = calculate_sma(data, ShortWindow, LongWindow)
  /\ last' = [fn |-> "calculate_sma"]
  /\ UNCHANGED <<source, run, prevRun>>

CallApplyStrategy ==
  \E strategy \in Strategies :
    /\ pre' = data
    /\ data' = apply_strategy(data, strategy)
    /\ last' = [fn |-> "apply_strategy", strategy |-> strategy]
    /\ UNCHANGED <<source, run, prevRun>>

Outcome(o) ==
  IF o.kind = "return"
  THEN [kind |-> "return", growth |-> o.growth, roi |-> o.roi]
  ELSE [kind |-> "raise", exc |-> o.exc]

CallInvestmentGrowth ==
  \E amount \in Amounts, style \in StyleNames :
    \E o \in {calculate_investment_growth(data, amount, style)} :
      /\ data' = o.data
      /\ last' = [fn |-> "calculate_investment_growth", amount |-> amount,
                  style |-> style, out |-> Outcome(o)]
      /\ UNCHANGED <<source, pre, run, prevRun>>

(***************************************************************************)
(* main(): one press of "Analyze Stock".  Streamlit reruns the script, so  *)
(* the frame is loaded again from the source before the strategy runs.     *)
(***************************************************************************)
\* data.loc[start_date:end_date]: the bars whose date lies in the window.
WindowLo(d, start_date) == IF start_date < 1 THEN 1 ELSE start_date
WindowHi(d, end_date) == IF end_date > NBars(d) THEN NBars(d) ELSE end_date

Filter(d, start_date, end_date) ==
  [c \in DOMAIN d |->
     SubSeq(d[c], WindowLo(d, start_date), WindowHi(d, end_date))]

\* Faulty variant: the simulation run on the display window.
GrowthInputWindowed(d, start_date, end_date) == Filter(d, start_date, end_date)

\* The frame main() hands to calculate_investment_growth.
GrowthInput(d, start_date, end_date) == d

\* The styles loop: state after the first k styles, [d, outs] or an error.
RECURSIVE StylesLoop(_, _, _, _, _)
StylesLoop(d, amount, start_date, end_date, k) ==
  IF k = 0 THEN [kind |-> "ok", data |-> d, outs |-> <<>>]
  ELSE LET before == StylesLoop(d, amount, start_date, end_date, k - 1)
       IN  IF before.kind # "ok" THEN before
           ELSE LET style == Styles[k]
                    d1 == Fill(before.data, GrowthCol(style), None)
                    o  == calculate_investment_growth(
                            GrowthInput(d1, start_date, end_date), amount, style)
                IN  IF o.kind = "raise"
                    THEN [kind |-> "raise", exc |-> o.exc, data |-> d1]
                    ELSE [kind |-> "ok", data |-> o.data,
                          outs |-> Append(before.outs, Outcome(o))]

\* plot_investment_comparison: one trace per style whose column exists.
plot_investment_comparison(d, start_date, end_date) ==
  LET filtered_data == Filter(d, start_date, end_date)
  IN  [k \in {j \in 1..Len(Styles) : GrowthCol(Styles[j]) \in DOMAIN filtered_data} |->
         [x |-> [i \in 1..NBars(filtered_data) |-> WindowLo(d, start_date) + i - 1],
          y |-> filtered_data[GrowthCol(Styles[k])]]]

\* Lines 145-162: the frame and the outputs of one run.  visualize_interactive
\* (line 151) only draws from the frame and changes nothing.
AnalyzeStock(closes, strategy, initial_capital, start_date, end_date) ==
  LET d1 == apply_strategy(Frame(closes), strategy)
      lp == StylesLoop(d1, initial_capital, start_date, end_date, Len(Styles))
  IN  [data |-> lp.data,
       run |-> IF lp.kind = "raise"
               THEN [kind |-> "error", exc |-> lp.exc]
               ELSE [kind |-> "done", amount |-> initial_capital,
                     start_date |-> start_date, end_date |-> end_date,
                     outs |-> lp.outs,
                     traj |-> [k \in 1..Len(Styles) |->
                                 lp.data[GrowthCol(Styles[k])]],
                     shown |-> plot_investment_comparison(
                                 lp.data, start_date, end_date)]]

Analyze ==
  \E strategy \in Strategies, initial_capital \in Amounts,
     start_date \in DisplayDates, end_date \in DisplayDates :
    /\ ~(start_date > end_date)
    /\ \E r \in {AnalyzeStock(source, strategy, initial_capital,
                               start_date, end_date)} :
         /\ data' = r.data
         /\ run' = r.run
    /\ prevRun' = run
    /\ UNCHANGED <<source, pre, last>>

NextStrategy == CallBollingerBands \/ CallSma \/ CallApplyStrategy

NextGrowth == CallInvestmentGrowth

NextMain == Analyze

SpecStrategy == Init /\ [][NextStrategy]_vars

SpecGrowth == InitShort /\ [][NextGrowth]_vars

SpecMain == InitMain /\ [][NextMain]_vars

(***************************************************************************)
(* Properties.                                                             *)
(***************************************************************************)
GrowthCalled == last.fn = "calculate_investment_growth"

Applied(strategy) == last.fn = "apply_strategy" /\ last.strategy = strategy

Bars == 1..Len(source)

IsConstant(s) == \A i \in 1..Len(s) : s[i] = s[1]

\* C1: calculate_investment_growth fails with an InvalidInputError, and
\* returns no growth/ROI result, whenever the series has fewer than 2 bars or
\* the first close is <= 0.
C1_DegenerateSeriesRaises ==
  (GrowthCalled /\ (Len(source) < 2 \/ source[1] <= 0))
    => (last.out.kind = "raise" /\ last.out.exc = "InvalidInputError")

\* C2 as stated: for positive closes, at least 2 bars and the same principal,
\* the final growth is ordered Aggressive >= Moderate >= Passive when
\* end_close >= start_close, and in the reverse order when end_close < start_close.
C2_StyleOrderingReverses ==
  (run.kind = "done" /\ Len(source) >= 2)
    => LET g == [k \in 1..3 |-> run.outs[k].growth]
       IN  IF source[Len(source)] >= source[1]
           THEN Ge(g[1], g[2]) /\ Ge(g[2], g[3])
           ELSE Le(g[1], g[2]) /\ Le(g[2], g[3])

\* C2 amended: for positive closes, at least 2 bars and the same positive
\* principal, the final growth is ordered Aggressive >= Moderate >= Passive
\* both when end_close >= start_close and when end_close < start_close.
C2_StyleOrdering ==
  (run.kind = "done" /\ Len(source) >= 2)
    => LET g == [k \in 1..3 |-> run.outs[k].growth]
       IN  Ge(g[1], g[2]) /\ Ge(g[2], g[3])

C2_Witness ==
  /\ run.kind = "done"
  /\ Len(source) >= 2
  /\ source[Len(source)] < source[1]
  /\ Gt(run.outs[1].growth, run.outs[3].growth)

\* C3: the growth simulation does not depend on the display window: the final
\* growth, the ROI and every trajectory value of a run are those of the full
\* series (start_close from the first bar, end_close from the last), two runs
\* with the same principal agree on them whatever their windows, and the
\* window only selects which bars of the trajectory are shown.
C3_DisplayWindowIndependence ==
  run.kind = "done" =>
    /\ \A k \in 1..Len(Styles) :
         LET factor == Times(R(run.amount), Multiplier(Styles[k]))
         IN  /\ run.outs[k].growth =
                  Times(Rat(source[Len(source)], source[1]), factor)
             /\ run.outs[k].roi =
                  Times(Div(Minus(run.outs[k].growth, R(run.amount)),
                            R(run.amount)), R(100))
             /\ Len(run.traj[k]) = Len(source)
             /\ \A i \in Bars :
                  run.traj[k][i] = Times(Rat(source[i], source[1]), factor)
             /\ k \in DOMAIN run.shown
             /\ Len(run.shown[k].x) = Len(run.shown[k].y)
             /\ \A i \in Bars :
                  (run.start_date <= i /\ i <= run.end_date)
                    <=> (\E j \in 1..Len(run.shown[k].x) : run.shown[k].x[j] = i)
             /\ \A j \in 1..Len(run.shown[k].x) :
                  run.shown[k].y[j] = run.traj[k][run.shown[k].x[j]]
    /\ (prevRun.kind = "done" /\ prevRun.amount = run.amount)
         => (prevRun.outs = run.outs /\ prevRun.traj = run.traj)

C3_Witness ==
  /\ run.kind = "done"
  /\ prevRun.kind = "done"
  /\ prevRun.amount = run.amount
  /\ prevRun.start_date = 1
  /\ run.start_date > 1
  /\ run.end_date < Len(source)
  /\ source[run.start_date] # source[1]
  /\ source[run.end_date] # source[Len(source)]
  /\ Len(run.shown[1].x) < Len(run.traj[1])

\* C4: after calculate_bollinger_bands or calculate_sma returns, the series
\* that was passed in is what it was before the call: no value changed and no
\* field added.
C4_IndicatorsLeaveInputUnchanged ==
  last.fn \in {"calculate_bollinger_bands", "calculate_sma"} => data = pre

\* C5: under SMA Crossover, on every bar where both averages are defined the
\* signal is Buy iff sma_short > sma_long, Sell iff sma_short < sma_long and
\* Hold iff they are equal, on every bar of a run and not only where they cross.
C5_SmaLevelComparison ==
  Applied("SMA Crossover") =>
    \A i \in Bars :
      (i >= LongWindow /\ i >= ShortWindow) =>
        LET S == SumFrom(source, i - ShortWindow + 1, i)
            L == SumFrom(source, i - LongWindow + 1, i)
        IN  /\ data["SMA_Short"][i] = Rat(S, ShortWindow)
            /\ data["SMA_Long"][i] = Rat(L, LongWindow)
            /\ (data["Signal"][i] = 1) <=> (S * LongWindow > L * ShortWindow)
            /\ (data["Signal"][i] = -1) <=> (S * LongWindow < L * ShortWindow)
            /\ (data["Signal"][i] = 0) <=> (S * LongWindow = L * ShortWindow)

C5_Witness ==
  /\ Applied("SMA Crossover")
  /\ \E i \in Bars : /\ i > LongWindow
                     /\ data["Signal"][i - 1] = 1
                     /\ data["Signal"][i] = 1
  /\ \E i \in Bars : i > LongWindow /\ data["Signal"][i] = -1

\* C6: under Bollinger Bands each bar's signal is decided from that bar's
\* bands with strict inequalities: Buy when close < lower, Sell when
\* close > upper, otherwise Hold; a series of constant closes has std = 0 and
\* upper = lower = sma = close on its defined bars and Hold on every bar.
C6_BollingerStrict ==
  Applied("Bollinger Bands") =>
    /\ \A i \in Bars :
         LET c == R(source[i])
         IN  data["Signal"][i] =
               IF GtSurd(c, data["Upper Band"][i]) THEN -1
               ELSE IF LtSurd(c, data["Lower Band"][i]) THEN 1 ELSE 0
    /\ IsConstant(source) =>
         \A i \in Bars :
           /\ data["Signal"][i] = 0
           /\ i >= Window =>
                /\ data["STD"][i] = Surd(Zero, 0, Zero)
                /\ data["SMA"][i] = R(source[i])
                /\ data["Upper Band"][i] = Surd(R(source[i]), 0, Zero)
                /\ data["Lower Band"][i] = Surd(R(source[i]), 0, Zero)

C6_Witness ==
  /\ Applied("Bollinger Bands")
  /\ Len(source) = Window + MaxOver
  /\ \A i \in Bars : source[i] = 50
  /\ data["Lower Band"][Len(source)] = Surd(R(50), 0, Zero)
  /\ data["Signal"][Len(source)] = 0

\* C7: for both strategies every bar whose rolling indicator is undefined (the
\* first window-1 bars, and every bar of a series shorter than the window) has
\* signal Hold, and the call completes with a signal for every bar.
C7_UndefinedIsHold ==
  last.fn = "apply_strategy" =>
    /\ "Signal" \in DOMAIN data
    /\ Len(data["Signal"]) = Len(source)
    /\ Applied("Bollinger Bands") =>
         \A i \in Bars : i < Window =>
           /\ IsNaN(data["SMA"][i])
           /\ IsNaN(data["Upper Band"][i].a)
           /\ IsNaN(data["Lower Band"][i].a)
           /\ data["Signal"][i] = 0
    /\ Applied("SMA Crossover") =>
         \A i \in Bars : i < LongWindow =>
           /\ IsNaN(data["SMA_Long"][i])
           /\ (i < ShortWindow => IsNaN(data["SMA_Short"][i]))
           /\ data["Signal"][i] = 0

C7_Witness ==
  /\ Applied("Bollinger Bands")
  /\ Len(source) = Window - 1
  /\ \A i \in Bars : data["Signal"][i] = 0 /\ IsNaN(data["Lower Band"][i].a)

\* C8: on a series whose first close is positive, the summary agrees with the
\* stored trajectory: the trajectory at the first bar is principal * multiplier,
\* the final growth is the trajectory at the last bar, and
\* ROI = (finalGrowth - principal) / principal * 100; closes [100, 110, 121],
\* principal 10000, Moderate give final growth 12100 and ROI 21.
C8_SummaryMatchesTrajectory ==
  (GrowthCalled /\ Len(source) >= 1 /\ source[1] > 0) =>
    LET col == data[GrowthCol(last.style)]
        g == last.out.growth
    IN  /\ last.out.kind = "return"
        /\ Len(col) = Len(source)
        /\ col[1] = Times(R(last.amount), Multiplier(last.style))
        /\ g = col[Len(source)]
        /\ IsFinite(last.out.roi)
        /\ Times(Minus(Div(g, R(last.amount)), R(1)), R(100)) = last.out.roi
        /\ (source = <<100, 110, 121>> /\ last.amount = 10000
              /\ last.style = "Moderate")
             => (g = R(12100) /\ last.out.roi = R(21))

C8_Witness ==
  /\ GrowthCalled
  /\ source = <<100, 110, 121>>
  /\ last.amount = 10000
  /\ last.style = "Moderate"
  /\ last.out.growth = R(12100)
  /\ data["Moderate Growth"] = <<R(10000), R(11000), R(12100)>>

\* C9: a style name outside {Aggressive, Moderate, Passive} raises no error
\* and is simulated with multiplier 1.0: its final growth, ROI and trajectory
\* are those of Moderate for the same series and principal.
C9_UnknownStyleIsModerate ==
  (GrowthCalled /\ last.style \notin {"Aggressive", "Moderate", "Passive"}) =>
    LET m == calculate_investment_growth(Frame(source), last.amount, "Moderate")
    IN  /\ last.out = Outcome(m)
        /\ Len(source) >= 1 =>
             /\ last.out.kind = "return"
             /\ data[GrowthCol(last.style)] = m.data["Moderate Growth"]

C9_Witness ==
  /\ GrowthCalled
  /\ last.style = "Balanced"
  /\ Len(source) >= 2
  /\ source[1] > 0
  /\ last.out.kind = "return"
  /\ "Balanced Growth" \in DOMAIN data
  /\ "Aggressive Growth" \in DOMAIN data
  /\ data["Balanced Growth"] # data["Aggressive Growth"]

\* C10: after any sequence of apply_strategy calls on the same series, the
\* signals are exactly those of the strategy of the last call, derived from
\* that strategy's indicators as recomputed in that call; nothing is left
\* over from the indicators or signals of an earlier call's strategy.
C10_SignalsOfLastStrategy ==
  last.fn = "apply_strategy" =>
    LET fresh == apply_strategy(Frame(source), last.strategy)
    IN  /\ DOMAIN fresh \subseteq DOMAIN data
        /\ \A c \in DOMAIN fresh : data[c] = fresh[c]

C10_Witness ==
  /\ Applied("SMA Crossover")
  /\ "Signal" \in DOMAIN pre
  /\ "Lower Band" \in DOMAIN pre
  /\ pre["Signal"] # data["Signal"]
  /\ \E i \in Bars : pre["Signal"][i] # 0 /\ data["Signal"][i] = 0

====
